---------------------------- MODULE Spec2Model ----------------------------
(***************************************************************************)
(* Model of the SQLTools Athena driver (class AthenaDriver).               *)
(*                                                                         *)
(* The repository holds three revisions of the driver:                     *)
(*   "driver"   src/src/ls/driver.ts   bulk-object result retrieval        *)
(*   "part_002" src/unnamed/part_002   paged result retrieval, Glue search *)
(*   "part_001" src/unnamed/part_001   paged result retrieval, first cut   *)
(* The variable `variant` fixes which revision runs.  One driver call is   *)
(* in flight at a time; every action is one segment of an async method     *)
(* between two awaits, the remote round trip included.                     *)
(*                                                                         *)
(* Text is a sequence of symbols (one TLA+ string per symbol), so that     *)
(* String.split and the CSV layout of the result object are computed.      *)
(***************************************************************************)
EXTENDS Integers, Sequences, FiniteSets, TLC

VARIABLES
  variant,     \* which revision of driver.ts runs
  connection,  \* this.connection
  op,          \* the driver method in flight
  arg,         \* its arguments
  pc,          \* its position
  remote,      \* what the remote service holds for this call
  queryExecution,       \* rawQuery: QueryExecutionId returned by the submit
  queryCheckExecution,  \* rawQuery: last status payload
  nextToken,   \* rawQuery / getChildrenForGroup: cursor local
  results,     \* rawQuery: result pages pushed so far; children: databaseList
  log,         \* remote calls issued by the call in flight, with their answers
  ret,         \* value returned by the call
  err,         \* error thrown by the call
  created,     \* how many Athena clients open() has constructed
  opens,       \* the handles the open() calls have returned
  held,        \* getChildrenForGroup TABLE: what the first rawQuery returned
  other,       \* a second call in flight: its locals while the first one runs
  credentials, \* this.credentials, the settings of the connection
  clients      \* the remote clients built: the one behind this.connection,
               \* and those in the locals s3 and glueCon of the call in flight

vars == <<variant, connection, op, arg, pc, remote, queryExecution,
          queryCheckExecution, nextToken, results, log, ret, err,
          created, opens, held, other, credentials, clients>>

---------------------------------------------------------------------------
(* Bounds of the model *)
MaxCols == 2
MaxPages == 2
MaxPageRows == 2
MaxPolls == 2
MaxListPages == 2
MaxListItems == 2
MaxTables == 3
MaxSearchNames == 3
MaxSearchTables == 3

---------------------------------------------------------------------------
(* Values *)
Variants == {"driver", "part_002", "part_001"}
PagedVariants == {"part_002", "part_001"}

Null == "null"            \* JS null / undefined connection
Absent == "absent"        \* a key the response does not carry
Undefined == <<"undefined">>   \* JS undefined as a cell value; no text equals it
LF == "\n"
COMMA == ","
QUOTE == "\""
SLASH == "/"

NonTerminal == {"QUEUED", "RUNNING"}
Terminal == {"SUCCEEDED", "FAILED", "CANCELLED"}
Reasons == {"SYNTAX_ERROR: line 1", ""}
QueryIds == {"q1", "q2"}

NoErr == [name |-> "none", message |-> ""]
NoRet == [cols |-> <<>>, results |-> <<>>]
NoArg == [parent |-> "null"]
NoCheck == [State |-> "none", StateChangeReason |-> "", OutputLocation |-> <<>>]
\* one listing the service holds: its names, and how it pages them
NoListing == [names |-> <<>>, sizes |-> <<0>>]
NoLists == [tables |-> NoListing, views |-> NoListing]
NoRemote == [nCols |-> 0, sizes |-> <<>>, trailing |-> FALSE, id |-> Null,
             state |-> "none", reason |-> "", polls |-> 0,
             nKeys |-> 0, show |-> FALSE, names |-> <<>>, lists |-> NoLists,
             firstCursor |-> FALSE, noList |-> 0, cell |-> "text"]
NoHeld == [kind |-> "none", pages |-> <<>>]

Range(s) == {s[i] : i \in DOMAIN s}

RECURSIVE SumSeq(_)
SumSeq(s) == IF s = <<>> THEN 0 ELSE Head(s) + SumSeq(Tail(s))

RECURSIVE Flatten(_)
Flatten(ss) == IF ss = <<>> THEN <<>> ELSE Head(ss) \o Flatten(Tail(ss))

\* all sequences over S of length lo..hi
SeqsOf(S, lo, hi) == UNION {[1..n -> S] : n \in lo..hi}

---------------------------------------------------------------------------
(* The remote service: one execution's result, as the query service pages  *)
(* it and as the object store holds it.                                    *)

ColName(c) == "c" \o ToString(c)
CellSym(r, c) == "r" \o ToString(r) \o "c" \o ToString(c)

\* the first page, when it has a row, starts with the header row
HasHeader(rm) == rm.sizes[1] > 0
TotalRows(rm) == SumSeq(rm.sizes)
NumDataRows(rm) == IF HasHeader(rm) THEN TotalRows(rm) - 1 ELSE TotalRows(rm)

\* what the first cell of the first data row holds: a text, null, or the
\* empty text; every other cell holds a text
CellKinds == {"text", "null", "empty"}
CellKind(rm, r, c) == IF r = 1 /\ c = 1 THEN rm.cell ELSE "text"

HeaderRow(rm) == [c \in 1..rm.nCols |-> <<ColName(c)>>]
\* a data row as GetQueryResults serves it: a null cell is a Datum without
\* VarCharValue, which reads undefined
DataRow(rm, r) ==
  [c \in 1..rm.nCols |->
     CASE CellKind(rm, r, c) = "null" -> Undefined
       [] CellKind(rm, r, c) = "empty" -> <<>>
       [] OTHER -> <<CellSym(r, c)>>]
\* the g-th row the service serves, counted over all pages; the result of a
\* SHOW statement has one cell per row, a name, and no header row
RowAt(rm, g) ==
  IF rm.show THEN << <<rm.names[g]>> >>
  ELSE IF HasHeader(rm)
    THEN IF g = 1 THEN HeaderRow(rm) ELSE DataRow(rm, g - 1)
    ELSE DataRow(rm, g)

PageStart(sizes, k) == SumSeq(SubSeq(sizes, 1, k - 1))
Token(k) == "t" \o ToString(k)
\* the page a request names: none for the first, the cursor of page k-1 for page k
\* (0: the service knows no such cursor)
PageOfToken(sizes, tok) ==
  IF tok = Absent THEN 1
  ELSE IF \E k \in 2..Len(sizes) : Token(k) = tok
    THEN CHOOSE k \in 2..Len(sizes) : Token(k) = tok
    ELSE 0
NextOf(sizes, k) == IF k < Len(sizes) THEN Token(k + 1) ELSE Absent

\* GetQueryResults: the page named by tok
ResultPage(rm, tok) ==
  LET k == PageOfToken(rm.sizes, tok) IN
  [Rows |-> [i \in 1..rm.sizes[k] |-> RowAt(rm, PageStart(rm.sizes, k) + i)],
   ColumnInfo |-> [c \in 1..rm.nCols |-> ColName(c)],
   NextToken |-> NextOf(rm.sizes, k)]

\* a catalog listing (ListDataCatalogs, ListDatabases): the g-th name it holds,
\* and the page named by tok
ItemName(g) == "n" \o ToString(g)
\* the g-th name of a listing: the service may be one that hands out the
\* names rm.names, otherwise the names are all different
ListName(rm, g) == IF g \in DOMAIN rm.names THEN rm.names[g] ELSE ItemName(g)
ListPage(rm, tok) ==
  LET k == PageOfToken(rm.sizes, tok) IN
  [Items |-> [i \in 1..rm.sizes[k] |-> ListName(rm, PageStart(rm.sizes, k) + i)],
   NextToken |-> NextOf(rm.sizes, k)]
\* every name of the listing, in page order
AllItems(rm) == [g \in 1..TotalRows(rm) |-> ListName(rm, g)]
\* a listing whose last page ends with the name its first page began with
RepeatingNames(sizes) ==
  IF Len(sizes) >= 2 /\ sizes[1] >= 1 /\ sizes[Len(sizes)] >= 1
    THEN {[g \in 1..SumSeq(sizes) |->
             IF g = SumSeq(sizes) THEN ItemName(1) ELSE ItemName(g)]}
    ELSE {}

RECURSIVE Join(_, _)
Join(pieces, sep) ==
  IF pieces = <<>> THEN <<>>
  ELSE IF Len(pieces) = 1 THEN Head(pieces)
  ELSE Head(pieces) \o <<sep>> \o Join(Tail(pieces), sep)

\* a cell as the result object writes it: nothing for null, a pair of quotes
\* for the empty text
ObjectField(cell) ==
  IF cell = Undefined THEN <<>>
  ELSE IF cell = <<>> THEN <<QUOTE, QUOTE>>
  ELSE cell
\* the result object: one line per row, cells separated by commas
ResultObject(rm) ==
  LET Line(g) == [c \in DOMAIN RowAt(rm, g) |-> ObjectField(RowAt(rm, g)[c])]
      lines == [g \in 1..TotalRows(rm) |-> Join(Line(g), COMMA)] IN
  IF lines = <<>> THEN <<>>
  ELSE Join(lines, LF) \o (IF rm.trailing THEN <<LF>> ELSE <<>>)

\* where the service stores the result object of execution id:
\* s3://bucket/results/<id>
OutputLocationOf(id) == <<"s3:", SLASH, SLASH, "bucket", SLASH, "results", SLASH, id>>
\* the object store holds the result object under this bucket and key
StoreHolds(rm, bucket, key) ==
  <<"s3:", SLASH, SLASH>> \o bucket \o <<SLASH>> \o key = OutputLocationOf(rm.id)

---------------------------------------------------------------------------
(* open, and the pieces of rawQuery *)

\* JS truthiness of a cursor local
Truthy(tok) == tok \notin {Absent, Null, ""}

\* this.credentials as the connection form leaves it: a profile connection
\* with the profile name filled in and the region left out, and a key
\* connection with the access-key fields and the region filled in
ConnectionSettings ==
  {[connectionMethod |-> "Profile", region |-> Absent,
    accessKeyId |-> Absent, secretAccessKey |-> Absent,
    sessionToken |-> Absent, profile |-> "default"],
   [connectionMethod |-> "Keys", region |-> "eu-west-1",
    accessKeyId |-> "AKIA", secretAccessKey |-> "secret",
    sessionToken |-> "session", profile |-> Absent]}

\* the clients that live in locals of a call (s3 in rawQuery, glueCon in
\* searchItems), not on the driver
LocalClients(cs) == {k \in cs : k.service # "athena"}

\* new Credentials({accessKeyId, secretAccessKey, sessionToken})
Credentials(c) ==
  [accessKeyId |-> c.accessKeyId, secretAccessKey |-> c.secretAccessKey,
   sessionToken |-> c.sessionToken]
\* new SharedIniFileCredentials({profile})
SharedIniFileCredentials(c) == [profile |-> c.profile]
\* if (connectionMethod !== 'Profile') ... else ...
CredentialsOf(c) ==
  IF c.connectionMethod # "Profile" THEN Credentials(c)
  ELSE SharedIniFileCredentials(c)
\* this.credentials.region || 'us-east-1'
RegionOf(c) == IF Truthy(c.region) THEN c.region ELSE "us-east-1"

\* new Athena({credentials, region}) in open()
NewAthena(c) ==
  [service |-> "athena", credentials |-> CredentialsOf(c), region |-> RegionOf(c)]
\* new S3({apiVersion, region, credentials: new Credentials(...)}) in rawQuery
NewS3(c) ==
  [service |-> "s3", credentials |-> Credentials(c), region |-> RegionOf(c)]
\* new Glue({credentials, region}) in searchItems
NewGlue(c) ==
  [service |-> "glue", credentials |-> CredentialsOf(c), region |-> RegionOf(c)]

\* the n-th Athena client constructed
ClientHandle(n) == "athena" \o ToString(n)

\* open(): this.connection and the number of clients after the call
\* (variation: every call constructs a client)
OpenConnectionAlwaysNew(conn, n) ==
  [connection |-> ClientHandle(n + 1), created |-> n + 1]
OpenConnection(conn, n) ==
  IF conn # Null THEN [connection |-> conn, created |-> n]
  ELSE [connection |-> ClientHandle(n + 1), created |-> n + 1]

\* close(): this.connection after the call
\* (variation: close drops the handle)
CloseConnectionClears(conn) == Null
CloseConnection(conn) == conn

\* (variation: RUNNING taken for an end status)
EndStatusWithRunning == {"FAILED", "SUCCEEDED", "CANCELLED", "RUNNING"}
EndStatus == {"FAILED", "SUCCEEDED", "CANCELLED"}

\* (variation: every status and result request names the same execution)
QueryExecutionIdFixed(execution) == "q1"
\* queryExecution.QueryExecutionId: the handle the submit answered with, as
\* the status and result requests carry it
QueryExecutionId(execution) == execution

\* (variation: the loop gives up after one status request)
PollAgainNever(check) == FALSE
\* } while (!endStatus.has(State))
PollAgain(check) == check.State \notin EndStatus

\* (variation: a FAILED status is not turned into an error)
ThrowsOnStatusNever(check) == FALSE
\* if (State === 'FAILED') throw new Error(StateChangeReason)
ThrowsOnStatus(check) == check.State = "FAILED"
\* (variation: the error names the state instead of the reason)
FailureErrorOfState(check) == [name |-> "Error", message |-> "Query " \o check.State]
FailureError(check) == [name |-> "Error", message |-> check.StateChangeReason]

\* paged revisions: if (nextToken) payload.NextToken = nextToken
\* (variation: the cursor is never put into the payload)
ResultsPayloadNoToken(tok) == Absent
ResultsPayloadToken(tok) == IF Truthy(tok) THEN tok ELSE Absent
\* } while (nextToken)
DrainAgain(tok) == Truthy(tok)

\* String.prototype.split(sep): the pieces between separators, at least one
RECURSIVE Split(_, _)
Split(s, sep) ==
  IF \A i \in DOMAIN s : s[i] # sep THEN <<s>>
  ELSE LET i == CHOOSE j \in DOMAIN s :
                  s[j] = sep /\ \A h \in 1..(j - 1) : s[h] # sep
       IN <<SubSeq(s, 1, i - 1)>> \o Split(SubSeq(s, i + 1, Len(s)), sep)

\* Array.prototype.shift()
Shift(a) == IF a = <<>> THEN <<>> ELSE Tail(a)

\* obj[key] = value
Assign(obj, key, value) ==
  [k \in (DOMAIN obj) \cup {key} |-> IF k = key THEN value ELSE obj[k]]

RECURSIVE AssignAll(_, _, _)
\* the object after obj[keys[i]] = values[i] for i = 1, 2, ...
AssignAll(obj, keys, values) ==
  IF keys = <<>> THEN obj
  ELSE AssignAll(Assign(obj, Head(keys), Head(values)), Tail(keys), Tail(values))

\* a[i] of a JS array: undefined past its end
At(a, i) == IF i \in DOMAIN a THEN a[i] ELSE Undefined

\* driver.ts: OutputLocation.split('/')[2]
BucketOf(location) == At(Split(location, SLASH), 3)
\* driver.ts: OutputLocation.split('/').slice(3).join('/')
KeyOf(location) ==
  LET pieces == Split(location, SLASH) IN
  Join(SubSeq(pieces, 4, Len(pieces)), SLASH)

\* driver.ts: resultsBase.split('\n').map(row => row.split(',')), then shift()
ParseResultsBase(resultsBase) ==
  LET lines == Split(resultsBase, LF) IN
  Shift([i \in DOMAIN lines |-> Split(lines[i], COMMA)])

\* driver.ts: one object per parsed line, resultToAppend[column] = row[i]
BulkResultSet(columns, resultsJson) ==
  [r \in DOMAIN resultsJson |->
     AssignAll(<<>>, columns,
               [i \in DOMAIN columns |-> At(resultsJson[r], i)])]

\* (variation: the rows of the listed page are put behind the object's rows)
BulkRawResultMixed(core_result, resultsBase) ==
  [columns |-> core_result.ColumnInfo,
   results |-> BulkResultSet(core_result.ColumnInfo,
                             ParseResultsBase(resultsBase))
               \o [r \in DOMAIN core_result.Rows |->
                     AssignAll(<<>>, core_result.ColumnInfo,
                               core_result.Rows[r])]]
\* driver.ts: what rawQuery returns
BulkRawResult(core_result, resultsBase) ==
  [columns |-> core_result.ColumnInfo,
   results |-> BulkResultSet(core_result.ColumnInfo,
                             ParseResultsBase(resultsBase))]

\* paged revisions, query(): rows of page i, the first page without its first row
\* (variation: the first row of every page is dropped)
PageRowsShiftAll(pages, i) == Shift(pages[i].Rows)
PageRows(pages, i) == IF i = 1 THEN Shift(pages[i].Rows) ELSE pages[i].Rows

\* paged revisions, query(): Object.assign({}, ...Data.map((column, i) =>
\* ({[columns[i]]: column.VarCharValue})))
RowObject(columns, Data) ==
  AssignAll(<<>>,
            [i \in DOMAIN Data |-> IF i \in DOMAIN columns THEN columns[i]
                                                            ELSE "undefined"],
            Data)

\* (variation: the column names are read from the cells of the first row)
PagedResponseHeaderColumns(pages) ==
  LET header == IF pages[1].Rows = <<>> THEN <<>> ELSE pages[1].Rows[1]
      columns == [c \in DOMAIN header |-> header[c][1]]
      rows == Flatten([i \in DOMAIN pages |-> PageRows(pages, i)])
  IN [cols |-> columns,
      results |-> [r \in DOMAIN rows |-> RowObject(columns, rows[r])]]
\* paged revisions, query(): cols and results of the response
PagedResponse(pages) ==
  LET columns == pages[1].ColumnInfo
      rows == Flatten([i \in DOMAIN pages |-> PageRows(pages, i)])
  IN [cols |-> columns,
      results |-> [r \in DOMAIN rows |-> RowObject(columns, rows[r])]]

\* driver.ts, query(): cols and results of the response
BulkResponse(raw) == [cols |-> raw.columns, results |-> raw.results]

---------------------------------------------------------------------------
(* The state machine *)

\* the locals of a call that has not been made
NoCall ==
  [op |-> "none", arg |-> NoArg, pc |-> "idle", remote |-> NoRemote,
   queryExecution |-> Null, queryCheckExecution |-> NoCheck,
   nextToken |-> Null, results |-> <<>>, log |-> <<>>, ret |-> NoRet,
   err |-> NoErr, held |-> NoHeld, clients |-> {}]

LogEntry(o, id, tok, resp) == [op |-> o, id |-> id, tok |-> tok, resp |-> resp]
RemoteError == [name |-> "AWSError", message |-> "remote call failed"]

Init ==
  /\ variant \in Variants
  /\ connection = Null
  /\ op = "none"
  /\ arg = NoArg
  /\ pc = "idle"
  /\ remote = NoRemote
  /\ queryExecution = Null
  /\ queryCheckExecution = NoCheck
  /\ nextToken = Null
  /\ results = <<>>
  /\ log = <<>>
  /\ ret = NoRet
  /\ err = NoErr
  /\ created = 0
  /\ opens = {}
  /\ held = NoHeld
  /\ other = NoCall
  /\ credentials \in ConnectionSettings
  /\ clients = {}

\* the call throws e
\* (variation: what was gathered so far is handed out with the failure)
ThrowWithPartial(e) ==
  pc' = "failed" /\ err' = e /\ ret' = [cols |-> <<>>, results |-> results]
Throw(e) == pc' = "failed" /\ err' = e /\ ret' = NoRet
\* the call returns v
Return(v) == pc' = "done" /\ ret' = v /\ err' = NoErr

\* rawQuery returns to its caller: query() returns its response,
\* testConnection() returns nothing, the tree and search callers go on
RawQueryReturns(response) ==
  IF op = "query" THEN Return(response)
  ELSE IF op = "testConnection" THEN Return(NoRet)
  ELSE pc' = "rq_returned" /\ UNCHANGED <<ret, err>>

\* query(sql) is called; the remote result it will meet is fixed here
StartQuery ==
  /\ pc = "idle"
  /\ op' = "query"
  /\ pc' = "rq_open"
  /\ \E n \in 1..MaxCols, sz \in SeqsOf(0..MaxPageRows, 1, MaxPages),
        tr \in (IF variant = "driver" THEN BOOLEAN ELSE {FALSE}),
        ck \in CellKinds :
       /\ (SumSeq(sz) < 2 => ck = "text")
       /\ remote' = [NoRemote EXCEPT !.nCols = n, !.sizes = sz, !.trailing = tr,
                                     !.cell = ck]
  /\ UNCHANGED <<variant, arg, connection, queryExecution, queryCheckExecution,
                 nextToken, results, log, ret, err,
                 created, opens, held, other, credentials, clients>>

\* rawQuery: const db = await this.open()
RqOpen ==
  /\ pc = "rq_open"
  /\ connection' = OpenConnection(connection, created).connection
  /\ created' = OpenConnection(connection, created).created
  /\ opens' = opens \cup {connection'}
  /\ clients' = IF connection # Null THEN clients
                ELSE clients \cup {NewAthena(credentials)}
  /\ pc' = "rq_submit"
  /\ UNCHANGED <<variant, arg, op, remote, queryExecution, queryCheckExecution,
                 nextToken, results, log, ret, err, held, other, credentials>>

\* rawQuery: queryExecution = await db.startQueryExecution(...); the service
\* answers with a handle it has not handed out before
RqSubmit ==
  /\ pc = "rq_submit"
  /\ \/ \E id \in QueryIds \ ({log[i].resp : i \in DOMAIN log}
                                \cup {other.remote.id}) :
          /\ remote' = [remote EXCEPT !.id = id, !.state = "QUEUED"]
          /\ queryExecution' = id
          /\ log' = Append(log, LogEntry("startQueryExecution", Absent, Absent, id))
          /\ pc' = "rq_poll"
          /\ UNCHANGED <<ret, err>>
     \/ /\ log' = Append(log, LogEntry("startQueryExecution", Absent, Absent, "error"))
        /\ Throw(RemoteError)
        /\ UNCHANGED <<remote, queryExecution>>
  /\ UNCHANGED <<variant, arg, connection, op, queryCheckExecution, nextToken, results,
                 created, opens, held, other, credentials, clients>>

\* the states the service may report next: it never goes back, and reports a
\* terminal state once one driver call has made MaxPolls polls
ReportableStates(rm) ==
  {s \in NonTerminal : rm.polls < MaxPolls /\ (rm.state = "RUNNING" => s = "RUNNING")}
    \cup Terminal

\* rawQuery: one turn of the do-while around getQueryExecution, and the
\* FAILED test behind the loop
RqPoll ==
  /\ pc = "rq_poll"
  /\ \/ /\ QueryExecutionId(queryExecution) = remote.id
        /\ \E s \in ReportableStates(remote),
              why \in Reasons :
             /\ (s # "FAILED" => why = "")
             /\ LET check == [State |-> s, StateChangeReason |-> why,
                              OutputLocation |-> OutputLocationOf(remote.id)] IN
                /\ remote' = [remote EXCEPT !.state = s, !.reason = why,
                                            !.polls = @ + 1]
                /\ queryCheckExecution' = check
                /\ log' = Append(log, LogEntry("getQueryExecution",
                                     QueryExecutionId(queryExecution), Absent, s))
                /\ IF PollAgain(check)
                     THEN pc' = "rq_poll" /\ UNCHANGED <<ret, err>>
                     ELSE IF ThrowsOnStatus(check)
                       THEN Throw(FailureError(check))
                       ELSE pc' = "rq_results" /\ UNCHANGED <<ret, err>>
     \/ /\ log' = Append(log, LogEntry("getQueryExecution",
                               QueryExecutionId(queryExecution), Absent, "error"))
        /\ Throw(RemoteError)
        /\ UNCHANGED <<remote, queryCheckExecution>>
  /\ UNCHANGED <<variant, arg, connection, op, queryExecution, nextToken, results,
                 created, opens, held, other, credentials, clients>>

\* the service's answer to getQueryResults(id, tok): only a finished execution
\* it knows, and a cursor it handed out, are served
CanServeResults(rm, id, tok) ==
  /\ id = rm.id
  /\ rm.state = "SUCCEEDED"
  /\ PageOfToken(rm.sizes, tok) # 0

\* paged revisions, rawQuery: one turn of the do-while around getQueryResults;
\* behind the loop rawQuery returns and query() builds its response
RqResultsPaged ==
  /\ pc = "rq_results"
  /\ variant \in PagedVariants
  /\ LET tok == ResultsPayloadToken(nextToken) IN
     \/ /\ CanServeResults(remote, QueryExecutionId(queryExecution), tok)
        /\ LET result == ResultPage(remote, tok) IN
           /\ log' = Append(log, LogEntry("getQueryResults",
                                QueryExecutionId(queryExecution), tok, result.NextToken))
           /\ nextToken' = result.NextToken
           /\ results' = Append(results, result)
           /\ IF DrainAgain(result.NextToken)
                THEN pc' = "rq_results" /\ UNCHANGED <<ret, err>>
                ELSE RawQueryReturns(PagedResponse(results'))
     \/ /\ log' = Append(log, LogEntry("getQueryResults",
                                QueryExecutionId(queryExecution), tok, "error"))
        /\ Throw(RemoteError)
        /\ UNCHANGED <<nextToken, results>>
  /\ UNCHANGED <<variant, arg, connection, op, remote, queryExecution,
                 queryCheckExecution,
                 created, opens, held, other, credentials, clients>>

\* driver.ts, rawQuery: core_result = await db.getQueryResults(payload)
RqResultsBulk ==
  /\ pc = "rq_results"
  /\ variant = "driver"
  /\ \/ /\ CanServeResults(remote, QueryExecutionId(queryExecution), Absent)
        /\ LET core_result == ResultPage(remote, Absent) IN
           /\ log' = Append(log, LogEntry("getQueryResults",
                                QueryExecutionId(queryExecution), Absent, core_result.NextToken))
           /\ results' = <<core_result>>
           /\ pc' = "rq_fetch"
           /\ UNCHANGED <<ret, err>>
     \/ /\ log' = Append(log, LogEntry("getQueryResults",
                                QueryExecutionId(queryExecution), Absent, "error"))
        /\ Throw(RemoteError)
        /\ UNCHANGED results
  /\ UNCHANGED <<variant, arg, connection, op, remote, queryExecution,
                 queryCheckExecution, nextToken,
                 created, opens, held, other, credentials, clients>>

\* driver.ts, rawQuery: bucket and key from the status payload's
\* OutputLocation, resultsBase = await s3.getObject(...), the CSV parse, and
\* query() building its response
RqFetch ==
  /\ pc = "rq_fetch"
  /\ clients' = clients \cup {NewS3(credentials)}
  /\ \/ /\ StoreHolds(remote, BucketOf(queryCheckExecution.OutputLocation),
                       KeyOf(queryCheckExecution.OutputLocation))
        /\ log' = Append(log, LogEntry("getObject", queryExecution, Absent, "body"))
        /\ RawQueryReturns(BulkResponse(BulkRawResult(results[1],
                                                      ResultObject(remote))))
     \/ /\ log' = Append(log, LogEntry("getObject", queryExecution, Absent, "error"))
        /\ Throw(RemoteError)
  /\ UNCHANGED <<variant, arg, connection, op, remote, queryExecution,
                 queryCheckExecution, nextToken, results,
                 created, opens, held, other, credentials>>

\* the caller has its answer; the driver is ready for the next call
Finish ==
  /\ pc \in {"done", "failed"}
  /\ op' = "none"
  /\ pc' = "idle"
  /\ remote' = NoRemote
  /\ queryExecution' = Null
  /\ queryCheckExecution' = NoCheck
  /\ nextToken' = Null
  /\ results' = <<>>
  /\ log' = <<>>
  /\ ret' = NoRet
  /\ err' = NoErr
  /\ arg' = NoArg
  /\ held' = NoHeld
  /\ clients' = clients \ LocalClients(clients)
  /\ UNCHANGED <<variant, connection, created, opens, other, credentials>>

---------------------------------------------------------------------------
(* getChildrenForItem -> getChildrenForGroup, the listing groups *)

Catalogs == {"AwsDataCatalog", "lake"}
TypeError == [name |-> "TypeError", message |-> "Cannot read properties of undefined"]

\* the node of one catalog
CatalogNode(name) ==
  [database |-> "", label |-> name, type |-> "SCHEMA", schema |-> name,
   childType |-> "DATABASE"]
\* the node of one database
DatabaseNode(parent, name) ==
  [database |-> name, label |-> name, type |-> "DATABASE", schema |-> parent,
   childType |-> "TABLE"]
\* catalogs.DataCatalogsSummary.map(...), catalog.DatabaseList.map(...)
CatalogNodes(items) == [i \in DOMAIN items |-> CatalogNode(items[i])]
DatabaseNodes(parent, items) == [i \in DOMAIN items |-> DatabaseNode(parent, items[i])]

\* 'NextToken' in catalog ? catalog.NextToken : null
TokenOrNull(resp) == IF resp.NextToken # Absent THEN resp.NextToken ELSE Null
\* if (nextToken !== null) Object.assign(listDbRequest, {NextToken: nextToken})
ListDbRequestToken(tok) == IF tok # Null THEN tok ELSE Absent
\* while (firstBatch == true || nextToken !== null)
ListDbAgain(firstBatch, tok) == firstBatch \/ tok # Null
\* the revisions whose DATABASE case loops over the pages
DrainingVariants == {"driver", "part_002"}

\* getChildrenForItem({item: a Catalogs or Databases group, parent}) is called
StartChildren ==
  /\ pc = "idle"
  /\ \E o \in {"children_catalogs", "children_databases"}, c \in Catalogs,
        sz \in SeqsOf(0..MaxListItems, 1, MaxListPages) :
       /\ op' = o
       /\ arg' = [parent |-> c]
       /\ \E nm \in {<<>>} \cup RepeatingNames(sz) :
            remote' = [NoRemote EXCEPT !.sizes = sz, !.names = nm]
  /\ pc' = "gc_list"
  /\ UNCHANGED <<variant, connection, queryExecution, queryCheckExecution,
                 nextToken, results, log, ret, err,
                 created, opens, held, other, credentials, clients>>

\* case SCHEMA: catalogs = await db.listDataCatalogs(), mapped to nodes
GcListCatalogs ==
  /\ pc = "gc_list"
  /\ op = "children_catalogs"
  /\ IF connection = Null
       THEN Throw(TypeError) /\ UNCHANGED log
       ELSE \/ LET catalogs == ListPage(remote, Absent) IN
               /\ log' = Append(log, LogEntry("listDataCatalogs", Absent, Absent,
                                              catalogs.NextToken))
               /\ Return([cols |-> <<>>,
                          results |-> CatalogNodes(catalogs.Items)])
            \/ /\ log' = Append(log, LogEntry("listDataCatalogs", Absent, Absent,
                                              "error"))
               /\ Throw(RemoteError)
  /\ UNCHANGED <<variant, arg, connection, op, remote, queryExecution,
                 queryCheckExecution, nextToken, results,
                 created, opens, held, other, credentials, clients>>

\* part_001, case DATABASE: one db.listDatabases call, mapped to nodes
GcListDatabasesOnce ==
  /\ pc = "gc_list"
  /\ op = "children_databases"
  /\ variant \notin DrainingVariants
  /\ IF connection = Null
       THEN Throw(TypeError) /\ UNCHANGED log
       ELSE \/ LET catalog == ListPage(remote, Absent) IN
               /\ log' = Append(log, LogEntry("listDatabases", arg.parent, Absent,
                                              catalog.NextToken))
               /\ Return([cols |-> <<>>,
                          results |-> DatabaseNodes(arg.parent, catalog.Items)])
            \/ /\ log' = Append(log, LogEntry("listDatabases", arg.parent, Absent,
                                              "error"))
               /\ Throw(RemoteError)
  /\ UNCHANGED <<variant, arg, connection, op, remote, queryExecution,
                 queryCheckExecution, nextToken, results,
                 created, opens, held, other, credentials, clients>>

\* driver.ts and part_002, case DATABASE: one turn of the while loop around
\* db.listDatabases; behind the loop databaseList is returned
GcListDatabasesLoop ==
  /\ pc = "gc_list"
  /\ op = "children_databases"
  /\ variant \in DrainingVariants
  /\ ListDbAgain(log = <<>>, nextToken)
  /\ IF connection = Null
       THEN Throw(TypeError) /\ UNCHANGED <<log, nextToken, results>>
       ELSE LET tok == ListDbRequestToken(nextToken) IN
            \/ /\ PageOfToken(remote.sizes, tok) # 0
               /\ LET catalog == ListPage(remote, tok) IN
                  /\ log' = Append(log, LogEntry("listDatabases", arg.parent, tok,
                                                 catalog.NextToken))
                  /\ nextToken' = TokenOrNull(catalog)
                  /\ results' = results \o DatabaseNodes(arg.parent, catalog.Items)
                  /\ IF ListDbAgain(FALSE, nextToken')
                       THEN pc' = "gc_list" /\ UNCHANGED <<ret, err>>
                       ELSE Return([cols |-> <<>>, results |-> results'])
            \/ /\ log' = Append(log, LogEntry("listDatabases", arg.parent, tok,
                                              "error"))
               /\ Throw(RemoteError)
               /\ UNCHANGED <<nextToken, results>>
  /\ UNCHANGED <<variant, arg, connection, op, remote, queryExecution,
                 queryCheckExecution,
                 created, opens, held, other, credentials, clients>>

---------------------------------------------------------------------------
(* open(), close(), testConnection() *)

\* open() is called, also while another call waits at an await: the body of
\* open has no await, so it runs from its test to its return in one step
Open ==
  /\ connection' = OpenConnection(connection, created).connection
  /\ created' = OpenConnection(connection, created).created
  /\ opens' = opens \cup {connection'}
  /\ clients' = IF connection # Null THEN clients
                ELSE clients \cup {NewAthena(credentials)}
  /\ UNCHANGED <<variant, arg, op, pc, remote, queryExecution,
                 queryCheckExecution, nextToken, results, log, ret, err, held, other, credentials>>

\* close() is called: its body is empty
Close ==
  /\ pc = "idle"
  /\ op' = "close"
  /\ connection' = CloseConnection(connection)
  /\ Return(NoRet)
  /\ UNCHANGED <<variant, arg, remote, queryExecution, queryCheckExecution,
                 nextToken, results, log, created, opens, held, other, credentials, clients>>

\* testConnection() is called: await this.open(), then query('SELECT 1'),
\* whose result is the header row and one data row
StartTestConnection ==
  /\ pc = "idle"
  /\ op' = "testConnection"
  /\ connection' = OpenConnection(connection, created).connection
  /\ created' = OpenConnection(connection, created).created
  /\ opens' = opens \cup {connection'}
  /\ clients' = IF connection # Null THEN clients
                ELSE clients \cup {NewAthena(credentials)}
  /\ \E tr \in (IF variant = "driver" THEN BOOLEAN ELSE {FALSE}) :
       remote' = [NoRemote EXCEPT !.nCols = 1, !.sizes = <<2>>, !.trailing = tr]
  /\ pc' = "rq_open"
  /\ UNCHANGED <<variant, arg, queryExecution, queryCheckExecution,
                 nextToken, results, log, ret, err, held, other, credentials>>

---------------------------------------------------------------------------
(* getChildrenForGroup, the Tables and Views groups of a database *)

Databases == {"db1"}

RECURSIVE SeqOfSet(_)
\* the numbers of S in rising order
SeqOfSet(S) ==
  IF S = {} THEN <<>>
  ELSE LET m == CHOOSE x \in S : \A y \in S : x <= y IN
       <<m>> \o SeqOfSet(S \ {m})

\* the ways the service may page n rows
SplitsOf(n) ==
  IF n = 0 THEN {<<0>>}
  ELSE {sz \in SeqsOf(1..MaxPageRows, 1, MaxPages) : SumSeq(sz) = n}

\* the listing of the names numbered by S, paged as sz
Listing(S, sz) ==
  [names |-> [i \in DOMAIN SeqOfSet(S) |-> ItemName(SeqOfSet(S)[i])],
   sizes |-> sz]

\* the service is about to run a SHOW statement whose result is this listing
BeginExecution(rm, listing) ==
  [rm EXCEPT !.show = TRUE, !.nCols = 1, !.names = listing.names,
             !.sizes = listing.sizes, !.id = Null, !.state = "none",
             !.reason = ""]

\* what rawQuery returned: the array of result pages in the paged revisions;
\* in driver.ts the object {columns, results}, which is no array and has no
\* element 0
RawQueryResult ==
  IF variant \in PagedVariants THEN [kind |-> "array", pages |-> results]
  ELSE [kind |-> "object", pages |-> <<>>]

\* raw[0].ResultSet is readable: raw[0] is not undefined
HasFirstPage(raw) == raw.kind = "array" /\ raw.pages # <<>>
\* raw[0].ResultSet.Rows.map(row => row.Data[0].VarCharValue)
FirstPageNames(raw) ==
  [i \in DOMAIN raw.pages[1].Rows |-> raw.pages[1].Rows[i][1]]

\* the node of one table or view
RelationNode(parent, database, childType, label) ==
  [database |-> database, label |-> label, type |-> childType,
   schema |-> parent, childType |-> "COLUMN"]
\* tables[0].ResultSet.Rows.filter(row => !viewsSet.has(...)).map(...)
TableNodes(parent, database, tables, views) ==
  LET viewsSet == Range(FirstPageNames(views))
      kept == SelectSeq(FirstPageNames(tables), LAMBDA x : x \notin viewsSet)
  IN [i \in DOMAIN kept |-> RelationNode(parent, database, "TABLE", kept[i])]
\* views2[0].ResultSet.Rows.map(...)
ViewNodes(parent, database, views2) ==
  LET names == FirstPageNames(views2) IN
  [i \in DOMAIN names |-> RelationNode(parent, database, "VIEW", names[i])]

\* getChildrenForItem({item: the Tables group, parent: a database}) is called;
\* the combined listing holds n names, the views listing those numbered by V
StartChildrenTables ==
  /\ pc = "idle"
  /\ op' = "children_tables"
  /\ \E c \in Catalogs, d \in Databases, n \in 0..MaxTables :
     \E V \in SUBSET (1..n), st \in SplitsOf(n) :
     \E sv \in SplitsOf(Cardinality(V)) :
       /\ arg' = [parent |-> c, database |-> d]
       /\ LET lists == [tables |-> Listing(1..n, st), views |-> Listing(V, sv)] IN
          remote' = BeginExecution([NoRemote EXCEPT !.lists = lists],
                                   lists.tables)
  /\ pc' = "rq_open"
  /\ UNCHANGED <<variant, connection, queryExecution, queryCheckExecution,
                 nextToken, results, log, ret, err, created, opens, held, other, credentials, clients>>

\* getChildrenForItem({item: the Views group, parent: a database}) is called
StartChildrenViews ==
  /\ pc = "idle"
  /\ op' = "children_views"
  /\ \E c \in Catalogs, d \in Databases, n \in 0..MaxTables :
     \E sv \in SplitsOf(n) :
       /\ arg' = [parent |-> c, database |-> d]
       /\ LET lists == [tables |-> NoListing, views |-> Listing(1..n, sv)] IN
          remote' = BeginExecution([NoRemote EXCEPT !.lists = lists],
                                   lists.views)
  /\ pc' = "rq_open"
  /\ UNCHANGED <<variant, connection, queryExecution, queryCheckExecution,
                 nextToken, results, log, ret, err, created, opens, held, other, credentials, clients>>

\* case TABLE: tables = await this.rawQuery(SHOW TABLES) has returned;
\* this.rawQuery(SHOW VIEWS) is called
GcTablesFirst ==
  /\ pc = "rq_returned"
  /\ op = "children_tables"
  /\ held = NoHeld
  /\ held' = RawQueryResult
  /\ remote' = BeginExecution(remote, remote.lists.views)
  /\ queryExecution' = Null
  /\ queryCheckExecution' = NoCheck
  /\ nextToken' = Null
  /\ results' = <<>>
  /\ pc' = "rq_open"
  /\ UNCHANGED <<variant, arg, connection, op, log, ret, err, created, opens,
                 other, credentials, clients>>

\* case TABLE: views = await this.rawQuery(SHOW VIEWS) has returned; the
\* tables outside viewsSet are mapped to nodes
GcTablesSecond ==
  /\ pc = "rq_returned"
  /\ op = "children_tables"
  /\ held # NoHeld
  /\ IF HasFirstPage(RawQueryResult) /\ HasFirstPage(held)
       THEN Return([cols |-> <<>>,
                    results |-> TableNodes(arg.parent, arg.database, held,
                                           RawQueryResult)])
       ELSE Throw(TypeError)
  /\ UNCHANGED <<variant, arg, connection, op, remote, queryExecution,
                 queryCheckExecution, nextToken, results, log,
                 created, opens, held, other, credentials, clients>>

\* case VIEW: views2 = await this.rawQuery(SHOW VIEWS) has returned and is
\* mapped to nodes
GcViews ==
  /\ pc = "rq_returned"
  /\ op = "children_views"
  /\ IF HasFirstPage(RawQueryResult)
       THEN Return([cols |-> <<>>,
                    results |-> ViewNodes(arg.parent, arg.database,
                                          RawQueryResult)])
       ELSE Throw(TypeError)
  /\ UNCHANGED <<variant, arg, connection, op, remote, queryExecution,
                 queryCheckExecution, nextToken, results, log,
                 created, opens, held, other, credentials, clients>>

---------------------------------------------------------------------------
(* getChildrenForItem, the columns of a table or view *)

KeyName(k) == "k" \o ToString(k)
\* GetTableMetadata: the answer for a table or view of rm.nCols columns and
\* rm.nKeys partition keys
TableMetadata(rm) ==
  [Columns |-> [c \in 1..rm.nCols |-> [Name |-> ColName(c), Type |-> "string"]],
   PartitionKeys |-> [k \in 1..rm.nKeys |-> [Name |-> KeyName(k), Type |-> "string"]]]

\* [...TableMetadata.Columns, ...TableMetadata.PartitionKeys]
\* (variation: the partition keys come first)
KeysThenColumns(md) == md.PartitionKeys \o md.Columns
ColumnsThenKeys(md) == md.Columns \o md.PartitionKeys

\* the node of one column, with the fields the item and the answer determine
ColumnNode(item, column) ==
  [label |-> column.Name, type |-> "COLUMN", dataType |-> column.Type,
   schema |-> item.schema, database |-> item.database,
   childType |-> "NO_CHILD", isNullable |-> TRUE, table |-> item.parent]
ColumnNodes(item, columns) ==
  [i \in DOMAIN columns |-> ColumnNode(item, columns[i])]

\* getChildrenForItem({item: a table or a view, parent}) is called
StartChildrenColumns ==
  /\ pc = "idle"
  /\ op' = "children_columns"
  /\ \E c \in Catalogs, d \in Databases, ty \in {"TABLE", "VIEW"},
        n \in 0..MaxCols, k \in 0..MaxCols :
       /\ arg' = [parent |-> "group", schema |-> c, database |-> d,
                  label |-> "t1", type |-> ty]
       /\ remote' = [NoRemote EXCEPT !.nCols = n, !.nKeys = k]
  /\ pc' = "gi_meta"
  /\ UNCHANGED <<variant, connection, queryExecution, queryCheckExecution,
                 nextToken, results, log, ret, err, created, opens, held, other, credentials, clients>>

\* case TABLE, case VIEW: tableMetadata = await db.getTableMetadata(...),
\* mapped to nodes
GiTableMetadata ==
  /\ pc = "gi_meta"
  /\ op = "children_columns"
  /\ IF connection = Null
       THEN Throw(TypeError) /\ UNCHANGED log
       ELSE \/ /\ log' = Append(log, LogEntry("getTableMetadata", arg.label,
                                              Absent, "metadata"))
               /\ Return([cols |-> <<>>,
                          results |-> ColumnNodes(arg,
                                        ColumnsThenKeys(TableMetadata(remote)))])
            \/ /\ log' = Append(log, LogEntry("getTableMetadata", arg.label,
                                              Absent, "error"))
               /\ Throw(RemoteError)
  /\ UNCHANGED <<variant, arg, connection, op, remote, queryExecution,
                 queryCheckExecution, nextToken, results, created, opens, held, other, credentials, clients>>

---------------------------------------------------------------------------
(* searchItems *)

\* the revisions whose searchItems asks the remote services
GlueVariants == {"driver", "part_002"}
ItemTypes == {"DATABASE", "TABLE", "VIEW", "COLUMN"}
SearchTexts == {"", "tab"}
DbNames == {ItemName(1), ItemName(2)}
TableRefs == {[database |-> "db1", label |-> "t1"],
              [database |-> "db1", label |-> "t2"],
              [database |-> "", label |-> "t3"]}
SearchOp(itemType) ==
  CASE itemType = "DATABASE" -> "search_databases"
    [] itemType = "TABLE" -> "search_tables"
    [] itemType = "VIEW" -> "search_views"
    [] itemType = "COLUMN" -> "search_columns"

\* `${search || word}${j}`
FakeLabel(search, word, j) ==
  <<IF search # "" THEN search ELSE word, ToString(j)>>
\* the three placeholder items of a table or view search
FakeRelations(itemType, search) ==
  [j \in 1..3 |->
     [database |-> "fakedb", label |-> FakeLabel(search, "table", j - 1),
      type |-> itemType, schema |-> "fakeschema", childType |-> "COLUMN"]]
\* part_001: the five placeholder items of a column search
FakeColumns(search) ==
  [i \in 1..5 |->
     [database |-> "fakedb",
      label |-> FakeLabel(search, IF i = 1 THEN "porra" ELSE "column", i - 1),
      type |-> "COLUMN", dataType |-> "faketype", schema |-> "fakeschema",
      childType |-> "NO_CHILD", isNullable |-> FALSE, table |-> "fakeTable"]]

\* searchItems where it asks no service: every item type in part_001, the
\* VIEW case in the later revisions
SearchPlaceholder ==
  /\ pc = "idle"
  /\ \E t \in ItemTypes, f \in SearchTexts :
       /\ variant = "part_001" \/ t = "VIEW"
       /\ op' = SearchOp(t)
       /\ arg' = [parent |-> Null, search |-> f, database |-> Absent]
       /\ Return([cols |-> <<>>,
                  results |-> IF t \in {"TABLE", "VIEW"} THEN FakeRelations(t, f)
                              ELSE IF t = "COLUMN" THEN FakeColumns(f)
                              ELSE <<>>])
  /\ UNCHANGED <<variant, connection, remote, queryExecution,
                 queryCheckExecution, nextToken, results, log,
                 created, opens, held, other, credentials, clients>>

\* Glue GetDatabases: the cursor that names page k; a cursor is an opaque
\* text, and rm.firstCursor says the one of page 2 reads 'first'
GlueToken(rm, k) == IF rm.firstCursor /\ k = 2 THEN "first" ELSE Token(k)
\* the page a request names (0: the service knows no such cursor)
GluePageOfToken(rm, tok) ==
  IF tok = Absent THEN 1
  ELSE IF \E k \in 2..Len(rm.sizes) : GlueToken(rm, k) = tok
    THEN CHOOSE k \in 2..Len(rm.sizes) : GlueToken(rm, k) = tok
    ELSE 0
\* Glue GetDatabases: the page named by tok; the answer for page rm.noList
\* carries no DatabaseList
GlueDatabasesPage(rm, tok) ==
  LET k == GluePageOfToken(rm, tok)
      next == IF k < Len(rm.sizes) THEN GlueToken(rm, k + 1) ELSE Absent
  IN IF rm.noList = k
       THEN [NextToken |-> next]
       ELSE [DatabaseList |-> [i \in 1..rm.sizes[k] |->
                                 [Name |-> rm.names[PageStart(rm.sizes, k) + i]]],
             NextToken |-> next]

\* the item of one database
DatabaseItem(name) ==
  [database |-> name, label |-> name, type |-> "DATABASE", schema |-> name]

\* uniqueDbs[db.Name] = dbDetails: a new key goes last, a known key keeps its
\* place and takes the new value
PutUnique(entries, e) ==
  IF \E i \in DOMAIN entries : entries[i].label = e.label
    THEN [i \in DOMAIN entries |->
            IF entries[i].label = e.label THEN e ELSE entries[i]]
    ELSE Append(entries, e)

RECURSIVE Gathered(_, _, _)
\* the callback of getDatabases over data.DatabaseList: driver.ts fills
\* uniqueDbs, part_002 pushes every entry to dbOutput
Gathered(v, entries, list) ==
  IF list = <<>> THEN entries
  ELSE Gathered(v,
                IF v = "driver" THEN PutUnique(entries, DatabaseItem(Head(list).Name))
                ELSE Append(entries, DatabaseItem(Head(list).Name)),
                Tail(list))

\* if (data.DatabaseList)
HasDatabaseList(data) == "DatabaseList" \in DOMAIN data

\* while (dbNextToken == 'first' || dbNextToken != null)
DbSearchAgain(tok) == tok = "first" \/ tok \notin {Null, Absent}
\* if (dbNextToken != 'first') dbParams.NextToken = dbNextToken
DbParamsToken(tok) == IF tok # "first" THEN tok ELSE Absent

\* the loop around getDatabases has no bound of its own: the calls of one
\* search that are followed
MaxDbCalls == MaxPages + 2

\* no page of the listing holds a name twice
PagesWithoutRepeat(names, sz) ==
  \A k \in DOMAIN sz : \A i, j \in 1..sz[k] :
     names[PageStart(sz, k) + i] = names[PageStart(sz, k) + j] => i = j

\* searchItems(DATABASE, search) is called; the listing may repeat a name on
\* a later page
StartSearchDatabases ==
  /\ pc = "idle"
  /\ variant \in GlueVariants
  /\ clients' = clients \cup {NewGlue(credentials)}
  /\ op' = "search_databases"
  /\ arg' = [parent |-> Null, search |-> "", database |-> Absent]
  /\ \E names \in SeqsOf(DbNames, 0, MaxSearchNames) :
     \E sz \in SplitsOf(Len(names)) :
     \E fc \in BOOLEAN, nl \in 0..Len(sz) :
       /\ PagesWithoutRepeat(names, sz)
       /\ (nl # 0 => sz[nl] = 0)
       /\ remote' = [NoRemote EXCEPT !.names = names, !.sizes = sz,
                                     !.firstCursor = fc, !.noList = nl]
  /\ nextToken' = "first"
  /\ pc' = "si_dbs"
  /\ UNCHANGED <<variant, connection, queryExecution, queryCheckExecution,
                 results, log, ret, err, created, opens, held, other, credentials>>

\* case DATABASE: one turn of the while loop around glue.getDatabases; behind
\* the loop the gathered entries are returned
SiGetDatabases ==
  /\ pc = "si_dbs"
  /\ DbSearchAgain(nextToken)
  /\ Len(log) < MaxDbCalls
  /\ LET tok == DbParamsToken(nextToken) IN
     \/ /\ GluePageOfToken(remote, tok) # 0
        /\ LET data == GlueDatabasesPage(remote, tok) IN
           /\ log' = Append(log, LogEntry("getDatabases", Absent, tok,
                                          data.NextToken))
           /\ IF variant = "driver" /\ ~HasDatabaseList(data)
                THEN \* driver.ts tests data.DatabaseList: the callback
                     \* leaves uniqueDbs and dbNextToken alone
                     /\ pc' = "si_dbs"
                     /\ UNCHANGED <<nextToken, results, ret, err>>
              ELSE IF ~HasDatabaseList(data)
                THEN \* part_002 iterates untested: for (const db of
                     \* undefined) throws in the callback; the call fails,
                     \* or is never settled
                     /\ \/ Throw(TypeError)
                        \/ pc' = "si_lost" /\ UNCHANGED <<ret, err>>
                     /\ UNCHANGED <<nextToken, results>>
              ELSE /\ results' = Gathered(variant, results, data.DatabaseList)
                   /\ nextToken' = data.NextToken
                   /\ IF DbSearchAgain(nextToken')
                        THEN pc' = "si_dbs" /\ UNCHANGED <<ret, err>>
                        ELSE Return([cols |-> <<>>, results |-> results'])
     \/ /\ log' = Append(log, LogEntry("getDatabases", Absent, tok, "error"))
        /\ Throw(RemoteError)
        /\ UNCHANGED <<nextToken, results>>
  /\ UNCHANGED <<variant, arg, connection, op, remote, queryExecution,
                 queryCheckExecution, created, opens, held, other, credentials, clients>>

\* searchItems(TABLE, search, extraParams) is called
StartSearchTables ==
  /\ pc = "idle"
  /\ variant \in GlueVariants
  /\ clients' = clients \cup {NewGlue(credentials)}
  /\ op' = "search_tables"
  /\ \E f \in SearchTexts, d \in {Absent, ""} \cup Databases,
        n \in 0..MaxTables :
     \E st \in SplitsOf(n) :
       /\ arg' = [parent |-> Null, search |-> f, database |-> d]
       /\ LET lists == [tables |-> Listing(1..n, st), views |-> NoListing] IN
          remote' = BeginExecution([NoRemote EXCEPT !.lists = lists],
                                   lists.tables)
  /\ pc' = "si_tables"
  /\ UNCHANGED <<variant, connection, queryExecution, queryCheckExecution,
                 nextToken, results, log, ret, err, created, opens, held, other, credentials>>

\* if (!database)
\* (variation: the test never holds)
NoDatabaseNever(database) == FALSE
NoDatabase(database) == ~Truthy(database)

\* case TABLE: if (!database) return []
SiTablesNoDatabase ==
  /\ pc = "si_tables"
  /\ NoDatabase(arg.database)
  /\ Return([cols |-> <<>>, results |-> <<>>])
  /\ UNCHANGED <<variant, arg, connection, op, remote, queryExecution,
                 queryCheckExecution, nextToken, results, log,
                 created, opens, held, other, credentials, clients>>

\* driver.ts, case TABLE: this.rawQuery(SHOW TABLES IN database) is called
SiTablesRawQuery ==
  /\ pc = "si_tables"
  /\ variant = "driver"
  /\ ~NoDatabase(arg.database)
  /\ pc' = "rq_open"
  /\ UNCHANGED <<variant, arg, connection, op, remote, queryExecution,
                 queryCheckExecution, nextToken, results, log, ret, err,
                 created, opens, held, other, credentials, clients>>

\* the item of one table: driver.ts from a result row, part_002 from an entry
\* of TableList
TableItem(v, database, label) ==
  IF v = "driver"
    THEN [database |-> database, label |-> label, type |-> "TABLE",
          schema |-> database]
    ELSE [type |-> "TABLE", isView |-> FALSE, label |-> label,
          schema |-> database, database |-> database]
TableItems(v, database, labels) ==
  [i \in DOMAIN labels |-> TableItem(v, database, labels[i])]

\* driver.ts, case TABLE: tableResults = await this.rawQuery(...) has
\* returned; tableResults[0].ResultSet.Rows is mapped to items
SiTablesMapped ==
  /\ pc = "rq_returned"
  /\ op = "search_tables"
  /\ IF HasFirstPage(RawQueryResult)
       THEN Return([cols |-> <<>>,
                    results |-> TableItems(variant, arg.database,
                                           FirstPageNames(RawQueryResult))])
       ELSE Throw(TypeError)
  /\ UNCHANGED <<variant, arg, connection, op, remote, queryExecution,
                 queryCheckExecution, nextToken, results, log,
                 created, opens, held, other, credentials, clients>>

\* Glue GetTables: the first page of the listing
GlueTablesPage(rm) ==
  [TableList |-> [i \in 1..rm.sizes[1] |-> [Name |-> rm.names[i]]],
   NextToken |-> NextOf(rm.sizes, 1)]

\* part_002, case TABLE: one glue.getTables call, whose callback fills
\* tblOutput
SiGetTables ==
  /\ pc = "si_tables"
  /\ variant = "part_002"
  /\ ~NoDatabase(arg.database)
  /\ \/ LET data == GlueTablesPage(remote) IN
        /\ log' = Append(log, LogEntry("getTables", arg.database, Absent,
                                       data.NextToken))
        /\ Return([cols |-> <<>>,
                   results |-> TableItems(variant, arg.database,
                                 [i \in DOMAIN data.TableList |->
                                    data.TableList[i].Name])])
     \/ /\ log' = Append(log, LogEntry("getTables", arg.database, Absent,
                                       "error"))
        /\ Throw(RemoteError)
  /\ UNCHANGED <<variant, arg, connection, op, remote, queryExecution,
                 queryCheckExecution, nextToken, results, created, opens, held, other, credentials, clients>>

\* searchItems(COLUMN, search, {tables}) is called
StartSearchColumns ==
  /\ pc = "idle"
  /\ variant \in GlueVariants
  /\ clients' = clients \cup {NewGlue(credentials)}
  /\ op' = "search_columns"
  /\ \E ts \in SeqsOf(TableRefs, 0, MaxSearchTables), n \in 1..MaxCols :
       /\ arg' = [parent |-> Null, search |-> "", database |-> Absent,
                  tables |-> ts]
       /\ remote' = [NoRemote EXCEPT !.nCols = n]
  /\ pc' = "si_cols"
  /\ UNCHANGED <<variant, connection, queryExecution, queryCheckExecution,
                 nextToken, results, log, ret, err, created, opens, held, other, credentials>>

\* (variation: the references are not filtered)
TablesUnfiltered(tables) == tables
\* _extraParams.tables.filter(t => t.database)
TablesWithDatabase(tables) == SelectSeq(tables, LAMBDA t : Truthy(t.database))

\* the items the callback of getTableMetadata pushes for one table
ColumnItems(table, columns) ==
  [i \in DOMAIN columns |->
     [database |-> table.database, label |-> columns[i].Name, type |-> "COLUMN",
      schema |-> table.database, dataType |-> columns[i].Type,
      childType |-> "NO_CHILD", isNullable |-> TRUE, iconName |-> "column",
      table |-> table.label]]

\* how the awaited getTableMetadata(params, callback).promise() ends when the
\* service answers with an error: the promise rejects with that error; in
\* part_002 the callback goes on to read data.TableMetadata of no data
MetadataFailures(v) ==
  IF v = "part_002" THEN {RemoteError, TypeError} ELSE {RemoteError}

\* case COLUMN: one turn of the for loop over the tables, a
\* db.getTableMetadata call; behind the loop columns is returned
SiColumns ==
  /\ pc = "si_cols"
  /\ LET tables == TablesWithDatabase(arg.tables)
         i == Len(log) + 1
     IN
     IF tables = <<>>
       THEN Return([cols |-> <<>>, results |-> <<>>]) /\ UNCHANGED <<log, results>>
       ELSE IF connection = Null
         THEN Throw(TypeError) /\ UNCHANGED <<log, results>>
         ELSE \/ /\ log' = Append(log, LogEntry("getTableMetadata",
                                                tables[i].label, Absent,
                                                "metadata"))
                 /\ results' = results \o
                      ColumnItems(tables[i], TableMetadata(remote).Columns)
                 /\ IF i < Len(tables)
                      THEN pc' = "si_cols" /\ UNCHANGED <<ret, err>>
                      ELSE Return([cols |-> <<>>, results |-> results'])
              \/ /\ log' = Append(log, LogEntry("getTableMetadata",
                                                tables[i].label, Absent,
                                                "error"))
                 /\ \E e \in MetadataFailures(variant) : Throw(e)
                 /\ UNCHANGED results
  /\ UNCHANGED <<variant, arg, connection, op, remote, queryExecution,
                 queryCheckExecution, nextToken, created, opens, held, other, credentials, clients>>

---------------------------------------------------------------------------
(* getChildrenForItem: the synthetic levels *)

SyntheticTypes == {"CONNECTION", "CONNECTED_CONNECTION", "SCHEMA", "DATABASE"}

\* one grouping node
GroupNode(label, iconId, childType) ==
  [label |-> label, type |-> "RESOURCE_GROUP", iconId |-> iconId,
   childType |-> childType]

\* (variation: the Views group comes before the Tables group)
SyntheticGroupsViewsFirst(v, itemType) ==
  IF itemType = "DATABASE"
    THEN <<GroupNode("Views", "folder", "VIEW"),
           GroupNode("Tables", "folder", "TABLE")>>
    ELSE <<GroupNode("Catalogs", "folder", "SCHEMA")>>
\* the cases CONNECTION, CONNECTED_CONNECTION, SCHEMA and DATABASE of the switch
SyntheticGroups(v, itemType) ==
  IF itemType \in {"CONNECTION", "CONNECTED_CONNECTION"}
    THEN <<GroupNode("Catalogs", "folder", "SCHEMA")>>
  ELSE IF itemType = "SCHEMA"
    THEN <<GroupNode("Databases",
                     IF v = "part_001" THEN "folder" ELSE "group-by-ref-type",
                     "DATABASE")>>
  ELSE <<GroupNode("Tables", "folder", "TABLE"),
         GroupNode("Views", "folder", "VIEW")>>

\* getChildrenForItem(item) for an item of a synthetic level: db = await
\* this.connection, whatever it holds, and the literal list of the case
ChildrenSynthetic ==
  /\ pc = "idle"
  /\ op' = "children_item"
  /\ \E t \in SyntheticTypes :
       /\ arg' = [parent |-> Null, type |-> t]
       /\ Return([cols |-> <<>>, results |-> SyntheticGroups(variant, t)])
  /\ UNCHANGED <<variant, connection, remote, queryExecution,
                 queryCheckExecution, nextToken, results, log,
                 created, opens, held, other, credentials, clients>>

Next ==
  \/ StartQuery
  \/ RqOpen
  \/ RqSubmit
  \/ RqPoll
  \/ RqResultsPaged
  \/ RqResultsBulk
  \/ RqFetch
  \/ StartChildren
  \/ GcListCatalogs
  \/ GcListDatabasesOnce
  \/ GcListDatabasesLoop
  \/ Open
  \/ Close
  \/ StartTestConnection
  \/ StartChildrenTables
  \/ StartChildrenViews
  \/ GcTablesFirst
  \/ GcTablesSecond
  \/ GcViews
  \/ StartChildrenColumns
  \/ GiTableMetadata
  \/ SearchPlaceholder
  \/ StartSearchDatabases
  \/ SiGetDatabases
  \/ StartSearchTables
  \/ SiTablesNoDatabase
  \/ SiTablesRawQuery
  \/ SiTablesMapped
  \/ SiGetTables
  \/ StartSearchColumns
  \/ SiColumns
  \/ ChildrenSynthetic
  \/ Finish

Spec == Init /\ [][Next]_vars

\* query() alone, with the progress the runtime and the service give it:
\* every remote call is answered and the continuation behind an await runs.
\* RqFetch is enabled exactly when pc = "rq_fetch", so weak fairness of it is
\* the recurrence of pc # "rq_fetch", which is written out.
AthenaSteps == RqOpen \/ RqSubmit \/ RqPoll \/ RqResultsPaged \/ RqResultsBulk
\* (the cells of the result play no part in the waiting: one column of texts)
QueryNext ==
  \/ StartQuery /\ remote'.nCols = 1 /\ remote'.cell = "text" /\ ~remote'.trailing
  \/ AthenaSteps
  \/ RqFetch
  \/ Finish
LiveSpec ==
  /\ Init /\ [][QueryNext]_vars
  /\ WF_vars(AthenaSteps)
  /\ []<>(pc # "rq_fetch")

---------------------------------------------------------------------------
(* Two query() calls in flight on one driver. The locals of rawQuery and  *)
(* query belong to the call; this.connection belongs to the driver. The   *)
(* variables hold the call whose continuation runs next, other holds the  *)
(* call that waits at an await.                                            *)

\* the locals of the call that runs
Locals ==
  [op |-> op, arg |-> arg, pc |-> pc, remote |-> remote,
   queryExecution |-> queryExecution,
   queryCheckExecution |-> queryCheckExecution,
   nextToken |-> nextToken, results |-> results, log |-> log, ret |-> ret,
   err |-> err, held |-> held, clients |-> LocalClients(clients)]

\* the ways the service pages the result of either query
ConcSizes == {<<2>>, <<2, 1>>}

\* query(sql1) and query(sql2) are called one after the other, before the
\* first await of either has returned; their results differ in the columns
StartTwoQueries ==
  /\ pc = "idle"
  /\ other.pc = "idle"
  /\ op' = "query"
  /\ pc' = "rq_open"
  /\ \E sa \in ConcSizes, sb \in ConcSizes :
       /\ remote' = [NoRemote EXCEPT !.nCols = 1, !.sizes = sa]
       /\ other' = [NoCall EXCEPT
                      !.op = "query", !.pc = "rq_open",
                      !.remote = [NoRemote EXCEPT !.nCols = 2, !.sizes = sb]]
  /\ UNCHANGED <<variant, arg, connection, queryExecution, queryCheckExecution,
                 nextToken, results, log, ret, err, created, opens, held,
                 credentials, clients>>

\* (variation: the handle of the last submit is kept on the driver, not in
\* the call)
SwitchSharedHandle ==
  /\ other.op = "query"
  /\ other' = Locals
  /\ op' = other.op
  /\ arg' = other.arg
  /\ pc' = other.pc
  /\ remote' = other.remote
  /\ queryCheckExecution' = other.queryCheckExecution
  /\ nextToken' = other.nextToken
  /\ results' = other.results
  /\ log' = other.log
  /\ ret' = other.ret
  /\ err' = other.err
  /\ held' = other.held
  /\ clients' = (clients \ LocalClients(clients)) \cup other.clients
  /\ UNCHANGED <<variant, connection, created, opens, queryExecution,
                 credentials>>
\* the event loop runs the continuation of the other call next
Switch ==
  /\ other.op = "query"
  /\ other' = Locals
  /\ op' = other.op
  /\ arg' = other.arg
  /\ pc' = other.pc
  /\ remote' = other.remote
  /\ queryExecution' = other.queryExecution
  /\ queryCheckExecution' = other.queryCheckExecution
  /\ nextToken' = other.nextToken
  /\ results' = other.results
  /\ log' = other.log
  /\ ret' = other.ret
  /\ err' = other.err
  /\ held' = other.held
  /\ clients' = (clients \ LocalClients(clients)) \cup other.clients
  /\ UNCHANGED <<variant, connection, created, opens, credentials>>

ConcNext == StartTwoQueries \/ Switch \/ AthenaSteps \/ RqFetch \/ Finish
ConcSpec == Init /\ [][ConcNext]_vars

---------------------------------------------------------------------------
(* Properties *)

RetrievalOps == {"getQueryResults", "getObject"}
Calls(o) == SelectSeq(log, LAMBDA e : e.op = o)
Answered == \A i \in DOMAIN log : log[i].resp # "error"
Retrieved == \E i \in DOMAIN log : log[i].op \in RetrievalOps

ColNames(rm) == [c \in 1..rm.nCols |-> ColName(c)]
\* a served row as the object the caller expects: column name -> cell
RowAsObject(rm, row) ==
  [k \in Range(ColNames(rm)) |-> row[CHOOSE c \in 1..rm.nCols : ColName(c) = k]]
\* the data rows of the execution, in the order served
ExpectedRows(rm) == [r \in 1..NumDataRows(rm) |-> RowAsObject(rm, DataRow(rm, r))]

\* C1: whenever the polling of an execute call ended on FAILED, the call has
\* failed, has returned no RowSet, and its error message is exactly the
\* reason the service put into that status payload.
C1_FailedCarriesReason ==
  (op = "query" /\ remote.state = "FAILED") =>
     /\ pc = "failed"
     /\ ret = NoRet
     /\ err.name = "Error"
     /\ err.message = remote.reason

C1_Witness ==
  /\ op = "query" /\ pc = "failed" /\ remote.state = "FAILED"
  /\ remote.reason = "SYNTAX_ERROR: line 1"
  /\ err.message = "SYNTAX_ERROR: line 1"

\* C2 (as claimed): an execute call whose polling ended on CANCELLED ends
\* failed with ExecutionCancelled, without having issued any result retrieval.
C2_CancelledFailsWithoutRetrieval ==
  (op = "query" /\ remote.state = "CANCELLED" /\ pc \in {"done", "failed"}) =>
     /\ pc = "failed"
     /\ err.name = "ExecutionCancelled"
     /\ ~Retrieved

\* C3: a result retrieval call (getQueryResults, getObject) is only ever
\* issued after a status answer with a terminal state, and the call that
\* follows a QUEUED or RUNNING answer is always another status poll.
C3_RetrievalOnlyAfterTerminal ==
  /\ \A i \in DOMAIN log :
       log[i].op \in RetrievalOps =>
         \E j \in 1..(i - 1) :
           log[j].op = "getQueryExecution" /\ log[j].resp \in Terminal
  /\ \A i \in 1..(Len(log) - 1) :
       (log[i].op = "getQueryExecution" /\ log[i].resp \in NonTerminal) =>
         log[i + 1].op = "getQueryExecution"
  /\ (pc \in {"rq_results", "rq_fetch"}) => queryCheckExecution.State \in Terminal

C3_Witness ==
  /\ op = "query" /\ pc = "done"
  /\ \E i, j \in DOMAIN log :
       /\ i < j
       /\ log[i].op = "getQueryExecution" /\ log[i].resp = "RUNNING"
       /\ log[j].op \in RetrievalOps

\* C4 (as claimed): when the service answered every call, reported SUCCEEDED
\* and serves one result page that starts with the header row and goes on with
\* data rows, execute returns
\* the page's column names as schema and exactly the data rows, each as
\* column name -> cell.
C4_EndToEndSinglePage ==
  (/\ op = "query" /\ pc \in {"done", "failed"}
   /\ remote.state = "SUCCEEDED" /\ Answered
   /\ Len(remote.sizes) = 1 /\ HasHeader(remote)
   /\ NumDataRows(remote) >= 1) =>
     /\ pc = "done"
     /\ ret.cols = ColNames(remote)
     /\ ret.results = ExpectedRows(remote)

\* C5 (as claimed): in the paged revisions the RowSet has the rows of all
\* pages minus exactly one, in page order.
C5_PagedCountMinusOne ==
  (op = "query" /\ pc = "done" /\ variant \in PagedVariants) =>
     /\ Len(ret.results) = TotalRows(remote) - 1
     /\ \A i \in DOMAIN ret.results :
          ret.results[i] = RowAsObject(remote, RowAt(remote, i + 1))

\* C5 (amended): in the paged revisions the RowSet has the rows of all pages,
\* in page order, minus the first row of the first page when that page has a
\* row; when the first page is empty nothing is dropped.
C5_PagedCountMinusFirstRow ==
  (op = "query" /\ pc = "done" /\ variant \in PagedVariants) =>
     LET dropped == IF remote.sizes[1] > 0 THEN 1 ELSE 0 IN
     /\ Len(ret.results) = TotalRows(remote) - dropped
     /\ \A i \in DOMAIN ret.results :
          ret.results[i] = RowAsObject(remote, RowAt(remote, i + dropped))

C5_Witness ==
  /\ op = "query" /\ pc = "done" /\ variant \in PagedVariants
  /\ Len(remote.sizes) >= 2 /\ remote.sizes[1] >= 2 /\ remote.sizes[2] >= 1
  /\ Len(ret.results) = TotalRows(remote) - 1

\* the lines of a text: the pieces ended by a line terminator, and an
\* unterminated last piece
LineCount(text) ==
  Cardinality({i \in DOMAIN text : text[i] = LF})
    + (IF text # <<>> /\ text[Len(text)] # LF THEN 1 ELSE 0)

\* C6 (as claimed): in the bulk revision the RowSet has one row per line of
\* the fetched object except the header line, also when the object ends with
\* a line terminator.
C6_BulkCountIsLinesMinusOne ==
  (op = "query" /\ pc = "done" /\ variant = "driver" /\ HasHeader(remote)) =>
     Len(ret.results) = LineCount(ResultObject(remote)) - 1

\* C7 (as claimed): a SUCCEEDED execution that has the header and no data row
\* makes execute return an empty row sequence, in every revision.
C7_ZeroRowsGiveEmptyRowSet ==
  (/\ op = "query" /\ pc \in {"done", "failed"}
   /\ remote.state = "SUCCEEDED" /\ Answered
   /\ HasHeader(remote) /\ NumDataRows(remote) = 0) =>
     /\ pc = "done"
     /\ ret.results = <<>>

\* C8: in the paged revisions the first getQueryResults call carries no
\* cursor, every later one carries the cursor of the answer before it, no
\* call follows an answer without cursor, the drain goes on while the last
\* answer had a cursor, and a finished drain over N pages made N calls.
C8_PagedDrainOneCallPerPage ==
  (op = "query" /\ variant \in PagedVariants) =>
     LET rc == Calls("getQueryResults") IN
     /\ \A i \in DOMAIN rc :
          rc[i].tok = (IF i = 1 THEN Absent ELSE rc[i - 1].resp)
     /\ \A i \in 1..(Len(rc) - 1) : rc[i].resp \notin {Absent, "error"}
     /\ (rc # <<>> /\ rc[Len(rc)].resp \notin {Absent, "error"}) => pc = "rq_results"
     /\ (rc # <<>> /\ rc[Len(rc)].resp = Absent) => pc = "done"
     /\ pc = "done" => Len(rc) = Len(remote.sizes)

C8_Witness ==
  /\ op = "query" /\ pc = "done" /\ variant \in PagedVariants
  /\ Len(remote.sizes) >= 2
  /\ Len(Calls("getQueryResults")) = Len(remote.sizes)

\* C9 (as claimed): a finished children(Database-group) has called the
\* listing once per page, each call after the first with the cursor of the
\* answer before it, and returns the databases of all pages in page order.
C9_DatabaseGroupDrained ==
  (op = "children_databases" /\ pc = "done") =>
     LET lc == Calls("listDatabases") IN
     /\ Len(lc) = Len(remote.sizes)
     /\ \A i \in DOMAIN lc :
          /\ lc[i].id = arg.parent
          /\ lc[i].tok = (IF i = 1 THEN Absent ELSE lc[i - 1].resp)
     /\ ret.results = DatabaseNodes(arg.parent, AllItems(remote))

\* C10 (as claimed): a finished children(Catalog-group) returns the catalogs
\* of every page of the listing.
C10_CatalogGroupDrained ==
  (op = "children_catalogs" /\ pc = "done") =>
     [i \in DOMAIN ret.results |-> ret.results[i].label] = AllItems(remote)


\* no execution of the call in flight ended FAILED or CANCELLED
Succeeded ==
  \A i \in DOMAIN log :
     log[i].op = "getQueryExecution" => log[i].resp \notin {"FAILED", "CANCELLED"}

\* the names of a listing as the cell texts a SHOW statement serves
TextsOf(names) == [i \in DOMAIN names |-> <<names[i]>>]
Labels(nodes) == [i \in DOMAIN nodes |-> nodes[i].label]

\* every listing of the call in flight is served in one page
OnePageListings ==
  Len(remote.lists.tables.sizes) = 1 /\ Len(remote.lists.views.sizes) = 1

\* C11 (as claimed): when the service answered every call, both executions
\* succeeded and served their listing in one page, children of a Tables
\* group ends with exactly the names of the combined listing that are
\* not in the views listing, in the combined listing's order.
C11_TableGroupIsDifference ==
  (/\ op = "children_tables" /\ pc \in {"done", "failed"}
   /\ Answered /\ Succeeded /\ OnePageListings) =>
     LET views == Range(remote.lists.views.names) IN
     /\ pc = "done"
     /\ Labels(ret.results) =
          TextsOf(SelectSeq(remote.lists.tables.names, LAMBDA x : x \notin views))

\* C12 (as claimed): when the service answered every call and the
\* execution succeeded and served the listing in one page, children of a
\* Views group ends with one node per entry of the views listing, in the
\* listing's order.
C12_ViewGroupIsViewsListing ==
  (/\ op = "children_views" /\ pc \in {"done", "failed"}
   /\ Answered /\ Succeeded /\ OnePageListings) =>
     /\ pc = "done"
     /\ Labels(ret.results) = TextsOf(remote.lists.views.names)
     /\ \A i \in DOMAIN ret.results : ret.results[i].type = "VIEW"


\* C13: children of a table or view issues at most one remote call, a
\* metadata call for that table; a finished call has issued exactly that one
\* and returns one Column node per column definition, in the answer's order,
\* followed by one per partition key, in the answer's order.
C13_ColumnsThenPartitionKeys ==
  op = "children_columns" =>
     /\ Len(log) <= 1
     /\ \A i \in DOMAIN log :
          log[i].op = "getTableMetadata" /\ log[i].id = arg.label
     /\ pc = "done" =>
          /\ Len(log) = 1
          /\ Len(ret.results) = remote.nCols + remote.nKeys
          /\ \A i \in DOMAIN ret.results : ret.results[i].type = "COLUMN"
          /\ \A c \in 1..remote.nCols : ret.results[c].label = ColName(c)
          /\ \A k \in 1..remote.nKeys :
               ret.results[remote.nCols + k].label = KeyName(k)

C13_Witness ==
  /\ op = "children_columns" /\ pc = "done" /\ arg.type = "VIEW"
  /\ remote.nCols >= 2 /\ remote.nKeys >= 1
  /\ Len(ret.results) = remote.nCols + remote.nKeys

ChildrenOps == {"children_catalogs", "children_databases", "children_tables",
                "children_views", "children_columns"}

\* C14: once a remote call of a children call has errored, that call was the
\* last one issued, the children call has failed with the remote error, and
\* it returns no node, whatever earlier pages had delivered.
C14_ChildrenFailAtomically ==
  (op \in ChildrenOps /\ \E i \in DOMAIN log : log[i].resp = "error") =>
     /\ \A i \in DOMAIN log : log[i].resp = "error" <=> i = Len(log)
     /\ pc = "failed"
     /\ err = RemoteError
     /\ ret = NoRet

C14_Witness ==
  /\ op = "children_databases" /\ pc = "failed" /\ err = RemoteError
  /\ Len(log) >= 2 /\ log[Len(log)].resp = "error"
  /\ results # <<>>
  /\ ret = NoRet


\* C15 (as claimed): a finished database search, in the revisions that ask
\* the service, returns one entry per distinct database name of the listing
\* pages and no name twice.
C15_DatabaseSearchDeduplicates ==
  (op = "search_databases" /\ pc = "done" /\ variant \in GlueVariants) =>
     /\ \A i, j \in DOMAIN ret.results :
          ret.results[i].label = ret.results[j].label => i = j
     /\ Range(Labels(ret.results)) = Range(remote.names)

\* C16: a table search without a database in extraParams (absent or empty)
\* issues no remote call at any point and ends returning the empty sequence.
C16_TableSearchWithoutDatabase ==
  (op = "search_tables" /\ variant \in GlueVariants /\ ~Truthy(arg.database)) =>
     /\ log = <<>>
     /\ pc \in {"si_tables", "done"}
     /\ pc = "done" => (ret.results = <<>> /\ err = NoErr)

C16_Witness ==
  /\ op = "search_tables" /\ pc = "done" /\ variant = "driver"
  /\ arg.database = Absent /\ arg.search = "tab"
  /\ remote.lists.tables.names # <<>>
  /\ log = <<>> /\ ret.results = <<>>

\* C17 (as claimed): when the service answered every call and served the
\* listing in one page, a table search with a database ends with one item per table of the remote listing of that
\* database, labelled with the table's name and tagged with the database.
C17_TableSearchListsTables ==
  (/\ op = "search_tables" /\ variant \in GlueVariants /\ Truthy(arg.database)
   /\ pc \in {"done", "failed"} /\ Answered /\ Succeeded /\ OnePageListings) =>
     LET names == remote.lists.tables.names IN
     /\ pc = "done"
     /\ Labels(ret.results) = (IF variant = "driver" THEN TextsOf(names) ELSE names)
     /\ \A i \in DOMAIN ret.results : ret.results[i].database = arg.database

\* C18 (as claimed): a column search in which a metadata call failed still
\* ends without failure, has issued one metadata call per table reference
\* that names a database, and returns the columns of the tables whose call
\* succeeded.
C18_ColumnSearchBestEffort ==
  (/\ op = "search_columns" /\ variant \in GlueVariants
   /\ pc \in {"done", "failed"}
   /\ \E i \in DOMAIN log : log[i].resp = "error") =>
     LET tables == TablesWithDatabase(arg.tables) IN
     /\ pc = "done"
     /\ Len(log) = Len(tables)
     /\ ret.results =
          Flatten([i \in DOMAIN tables |->
                     IF log[i].resp = "error" THEN <<>>
                     ELSE ColumnItems(tables[i], TableMetadata(remote).Columns)])


\* C19: whatever open calls were made, alone, inside other calls or between
\* the steps of a call in flight, at most one client has been constructed,
\* and every open call returned one and the same handle, the one held in
\* this.connection.
C19_OpenIdempotent ==
  /\ created <= 1
  /\ Cardinality(opens) <= 1
  /\ opens # {} => (created = 1 /\ opens = {connection})

\* testConnection has called open itself and rawQuery has called it again
C19_Witness ==
  /\ op = "testConnection" /\ pc = "rq_submit"
  /\ created = 1
  /\ opens = {ClientHandle(1)}

\* C20: in every state after the first open, this.connection is the handle
\* of the first client constructed: no open, close, execute, children,
\* search or testConnection step replaces or clears it.
C20_HandleNeverReplaced ==
  opens # {} => connection = ClientHandle(1)

C20_Witness ==
  /\ op = "close" /\ pc = "done"
  /\ opens # {}
  /\ connection = ClientHandle(1)


---------------------------------------------------------------------------
\* C29: when the polling of an execution ends on FAILED, the failing status
\* response is the last remote call of the operation: no getQueryResults and
\* no getObject call follows it, and the operation has failed.
C29_FailedStatusIsLastCall ==
  \A i \in 1..Len(log) :
    (log[i].op = "getQueryExecution" /\ log[i].resp = "FAILED") =>
      /\ i = Len(log)
      /\ pc = "failed"
      /\ \A j \in i..Len(log) : log[j].op \notin RetrievalOps
      /\ (op = "query" => \A j \in 1..Len(log) : log[j].op \notin RetrievalOps)

\* a query whose execution was polled more than once and then reported FAILED
C29_Witness ==
  /\ op = "query"
  /\ pc = "failed"
  /\ Len(log) >= 3
  /\ log[Len(log)].op = "getQueryExecution"
  /\ log[Len(log)].resp = "FAILED"


---------------------------------------------------------------------------
\* C27: a query issues exactly one submit, as its first remote call; every
\* later status and retrieval call carries the handle that submit returned;
\* the calls come in the order submit, one or more status polls, retrieval.
C27_SubmitPollsRetrieval ==
  (op = "query" /\ log # <<>>) =>
    /\ log[1].op = "startQueryExecution"
    /\ \A i \in 2..Len(log) :
          /\ log[i].op \in {"getQueryExecution"} \cup RetrievalOps
          /\ log[i].id = log[1].resp
          /\ log[i].op = "getQueryExecution" => log[i - 1].op # "getQueryResults"
          /\ log[i].op = "getQueryExecution" => log[i - 1].op # "getObject"
          /\ log[i].op \in RetrievalOps => i >= 3
          /\ log[i].op \in RetrievalOps => log[2].op = "getQueryExecution"
    /\ (pc \in {"rq_results", "rq_fetch", "done"} =>
          Len(log) >= 2 /\ log[2].op = "getQueryExecution")

\* a query that was submitted, polled twice and retrieved its rows
C27_Witness ==
  /\ op = "query"
  /\ pc = "done"
  /\ Len(Calls("getQueryExecution")) >= 2
  /\ Retrieved
  /\ log[1].resp = "q2"


---------------------------------------------------------------------------
\* C23: the rows of one returned RowSet come from one retrieval strategy only.
\* In driver.ts they are exactly the rows parsed from the one fetched result
\* object, none of them taken from the listed page; in the paged revisions
\* no object is fetched and they are exactly the rows of the listed pages.
C23_OneRetrievalStrategy ==
  (op = "query" /\ pc = "done") =>
    IF variant = "driver"
      THEN /\ Len(Calls("getObject")) = 1
           /\ Len(Calls("getQueryResults")) = 1
           /\ ret.results =
                BulkResultSet(results[1].ColumnInfo,
                              ParseResultsBase(ResultObject(remote)))
      ELSE /\ Calls("getObject") = <<>>
           /\ Len(ret.results) = SumSeq([i \in DOMAIN results |->
                                          Len(PageRows(results, i))])
           /\ \A r \in DOMAIN ret.results :
                \E i \in DOMAIN results : \E k \in DOMAIN results[i].Rows :
                  ret.results[r] = RowObject(results[1].ColumnInfo,
                                             results[i].Rows[k])

\* a bulk query whose listed first page holds rows and whose object holds more
C23_Witness ==
  /\ op = "query"
  /\ pc = "done"
  /\ variant = "driver"
  /\ Len(results[1].Rows) >= 2
  /\ Len(ret.results) > Len(results[1].Rows)


---------------------------------------------------------------------------
\* C25: children of a synthetic level issues no remote call and reads no
\* remote state: the root gives exactly one Catalogs group, a catalog exactly
\* one Databases group, a database exactly a Tables group followed by a Views
\* group, with the connection opened or not.
C25_SyntheticLevels ==
  (op = "children_item" /\ pc # "idle") =>
    /\ pc = "done"
    /\ log = <<>>
    /\ remote = NoRemote
    /\ \A i \in DOMAIN ret.results : ret.results[i].type = "RESOURCE_GROUP"
    /\ arg.type \in {"CONNECTION", "CONNECTED_CONNECTION"} =>
         /\ Labels(ret.results) = <<"Catalogs">>
         /\ ret.results[1].childType = "SCHEMA"
    /\ arg.type = "SCHEMA" =>
         /\ Labels(ret.results) = <<"Databases">>
         /\ ret.results[1].childType = "DATABASE"
    /\ arg.type = "DATABASE" =>
         /\ Labels(ret.results) = <<"Tables", "Views">>
         /\ ret.results[1].childType = "TABLE"
         /\ ret.results[2].childType = "VIEW"

\* the groups of a database, asked for on a driver that was never opened
C25_Witness ==
  /\ op = "children_item"
  /\ pc = "done"
  /\ arg.type = "DATABASE"
  /\ connection = Null
  /\ created = 0
  /\ Len(ret.results) = 2


---------------------------------------------------------------------------
\* C26 (as claimed): the nodes a finished children(Database-group) returns
\* never hold the same database name twice, also when the listing repeats a
\* name on two pages.
C26_DatabaseGroupDeduplicates ==
  (op = "children_databases" /\ pc = "done" /\ variant = "driver") =>
    \A i, j \in DOMAIN ret.results :
      ret.results[i].database = ret.results[j].database => i = j


---------------------------------------------------------------------------
\* C30 (as claimed): in a database search every listing call after the first
\* carries exactly the cursor of the answer before it, whatever its text; the
\* loop ends, returning, right after the first answer without a cursor, also
\* when an answer carries no database list; so the search makes no more
\* calls than the listing has pages.
C30_DatabaseSearchDrainTerminates ==
  (op = "search_databases" /\ variant \in GlueVariants) =>
    LET lc == Calls("getDatabases") IN
    /\ \A i \in 2..Len(lc) : lc[i].tok = lc[i - 1].resp
    /\ \A i \in DOMAIN lc : lc[i].resp = Absent => (i = Len(lc) /\ pc = "done")
    /\ Len(lc) <= Len(remote.sizes)


---------------------------------------------------------------------------
\* C21 (as claimed): there are no automatic retries. A remote call that
\* answers with an error is the last remote call of its operation, which has
\* failed (the column search, which is specified to skip a table whose
\* metadata call fails, aside); and apart from the status polls, and from a
\* column search over a list that names a table twice, no request with the
\* same operation, arguments and cursor is issued twice within one operation.
C21_NoAutomaticRetries ==
  /\ op # "search_columns" =>
       \A i \in DOMAIN log :
         log[i].resp = "error" => (i = Len(log) /\ pc = "failed")
  /\ \A i, j \in DOMAIN log :
       (/\ log[i].op = log[j].op
        /\ log[i].id = log[j].id
        /\ log[i].tok = log[j].tok
        /\ log[i].op \notin {"getQueryExecution", "startQueryExecution"}
        /\ op = "search_columns" =>
             \A a, b \in DOMAIN arg.tables : arg.tables[a] = arg.tables[b] => a = b)
       => i = j


---------------------------------------------------------------------------
\* C24 (as claimed): both retrieval strategies keep null and the empty text
\* apart: in the row the query returns, a cell the service reports as null
\* reads undefined and a cell it reports as the empty text reads as the empty
\* text.
C24_NullAndEmptyKeptApart ==
  (/\ op = "query" /\ pc = "done"
   /\ remote.cell # "text"
   /\ ret.results # <<>>) =>
     LET value == ret.results[1][ColName(1)] IN
     /\ remote.cell = "null" => value = Undefined
     /\ remote.cell = "empty" => value = <<>>


---------------------------------------------------------------------------
\* C28: a query has no timeout. While every status answer so far reported
\* QUEUED or RUNNING and no remote call failed, the query has neither
\* returned nor failed and is about to poll again; and when every remote call
\* is answered and the service comes to report a terminal status, the query
\* eventually returns or fails.
C28_StillPolling ==
  (/\ op = "query"
   /\ log # <<>>
   /\ \A i \in DOMAIN log : log[i].resp # "error"
   /\ \A i \in DOMAIN log :
        log[i].op = "getQueryExecution" => log[i].resp \in NonTerminal) =>
     /\ pc = "rq_poll"
     /\ Len(log) = 1 + Len(Calls("getQueryExecution"))
\* C28: always still polling under those answers, and every query ends
C28_NoTimeout ==
  /\ []C28_StillPolling
  /\ (op = "query") ~> (pc \in {"done", "failed"})

\* a query that returned after the service had answered MaxPolls status
\* requests with QUEUED or RUNNING
C28_Witness ==
  /\ op = "query"
  /\ pc = "done"
  /\ Len(Calls("getQueryExecution")) = MaxPolls + 1
  /\ \A i \in 2..(MaxPolls + 1) : log[i].resp \in NonTerminal


---------------------------------------------------------------------------
\* the calls of one query carry the handle of its own submit and the cursors
\* of its own answers, and its rows are those of its own execution
CallIsolated(c) ==
  (c.op = "query" /\ c.log # <<>>) =>
    /\ \A i \in 2..Len(c.log) : c.log[i].id = c.log[1].resp
    /\ c.log[1].resp # "error" => c.remote.id = c.log[1].resp
    /\ \A i \in DOMAIN c.log :
         (c.log[i].op = "getQueryResults" /\ c.log[i].tok # Absent) =>
           /\ c.log[i - 1].op = "getQueryResults"
           /\ c.log[i].tok = c.log[i - 1].resp
    /\ c.pc = "done" =>
         /\ \A r \in DOMAIN c.ret.results :
              DOMAIN c.ret.results[r] = Range(ColNames(c.remote))
         /\ c.ret.results =
              IF variant = "driver"
                THEN BulkResultSet(ColNames(c.remote),
                                   ParseResultsBase(ResultObject(c.remote)))
                ELSE PagedResponse(
                       [k \in DOMAIN c.remote.sizes |->
                          ResultPage(c.remote,
                                     IF k = 1 THEN Absent ELSE Token(k))]).results

\* C22: of two queries in flight on one driver, under every interleaving of
\* their steps, each has its own handle and cursor: every status and result
\* request of a call carries the handle its own submit returned, every
\* cursor it sends is the one its own previous answer carried, the two
\* handles differ, and the rows a call returns are those of its own execution.
C22_ConcurrentQueriesIsolated ==
  (op = "query" /\ other.op = "query") =>
    /\ CallIsolated(Locals)
    /\ CallIsolated(other)
    /\ (queryExecution # Null /\ other.queryExecution # Null) =>
         queryExecution # other.queryExecution

\* one query has returned its rows while the other, submitted and polled, is
\* still fetching its pages
C22_Witness ==
  /\ op = "query" /\ pc = "done" /\ Retrieved
  /\ other.op = "query" /\ other.pc = "rq_results"
  /\ Len(other.log) >= 3
  /\ Len(ret.results) >= 2


---------------------------------------------------------------------------
\* C31: a column search calls getTableMetadata once per table reference that
\* names a database, one after another in input order, and never for a
\* reference without a database; when it returns, it returns the columns of
\* those calls concatenated in that order, each tagged with the label and
\* the database of the reference it was fetched for.
C31_ColumnSearchInInputOrder ==
  (op = "search_columns" /\ variant \in GlueVariants) =>
    LET refs == SelectSeq(arg.tables, LAMBDA t : t.database \notin {"", Absent})
        cols == TableMetadata(remote).Columns
    IN
    /\ Len(log) <= Len(refs)
    /\ \A i \in DOMAIN log :
         log[i].op = "getTableMetadata" /\ log[i].id = refs[i].label
    /\ pc = "done" =>
         /\ Len(log) = Len(refs)
         /\ Len(ret.results) = Len(refs) * Len(cols)
         /\ \A i \in DOMAIN refs : \A k \in DOMAIN cols :
              LET item == ret.results[(i - 1) * Len(cols) + k] IN
              /\ item.label = cols[k].Name
              /\ item.table = refs[i].label
              /\ item.database = refs[i].database

\* a finished column search over two different tables and a reference
\* without a database between them
C31_Witness ==
  /\ op = "search_columns" /\ pc = "done" /\ variant \in GlueVariants
  /\ Len(arg.tables) = 3
  /\ arg.tables[1].label = "t2" /\ arg.tables[2].label = "t3"
  /\ arg.tables[3].label = "t1"
  /\ Len(log) = 2
  /\ Len(ret.results) >= 4


---------------------------------------------------------------------------
\* C32: the column schema a query returns is the column metadata of the
\* first result page, in its order, whatever the rows are: an empty first
\* page, later pages, a null or empty cell, and in driver.ts the lines of the
\* result object leave the names and their order as they are; the fields of
\* every returned row are among these names.
C32_SchemaFromFirstPageMetadata ==
  (op = "query" /\ pc = "done") =>
    /\ ret.cols = results[1].ColumnInfo
    /\ ret.cols = [c \in 1..remote.nCols |-> ColName(c)]
    /\ \A r \in DOMAIN ret.results : DOMAIN ret.results[r] \subseteq Range(ret.cols)

\* a finished query over two columns whose first page holds no row at all
\* and whose second page holds rows
C32_Witness ==
  /\ op = "query" /\ pc = "done"
  /\ remote.nCols = 2
  /\ Len(remote.sizes) = 2
  /\ remote.sizes[1] = 0
  /\ remote.sizes[2] = 2


---------------------------------------------------------------------------
\* C33 (as claimed): in part_002, when the service answered every call and
\* the executions succeeded, children of a Tables group returns the names of
\* all pages of the combined listing that are on no page of the views
\* listing, and children of a Views group returns the names of all pages of
\* the views listing.
C33_GroupsReflectAllPages ==
  (/\ variant = "part_002"
   /\ op \in {"children_tables", "children_views"}
   /\ pc = "done"
   /\ Answered /\ Succeeded) =>
     LET views == Range(remote.lists.views.names) IN
     Labels(ret.results) =
       IF op = "children_tables"
         THEN TextsOf(SelectSeq(remote.lists.tables.names,
                                LAMBDA x : x \notin views))
         ELSE TextsOf(remote.lists.views.names)

\* C34: every remote client the driver has built (the query service client of
\* open, the object-store client of rawQuery, the catalog client of
\* searchItems) carries the same credential and the same region, and with the
\* connection method 'Profile' none of them is built from the access-key
\* fields.
C34_ClientsFromResolvedCredential ==
  \A a, b \in clients :
    /\ a.credentials = b.credentials
    /\ a.region = b.region
    /\ credentials.connectionMethod = "Profile" =>
         "accessKeyId" \notin DOMAIN a.credentials

===========================================================================
